---- MODULE Spec2Model ----
(***************************************************************************)
(* Model of the streaming post-generation pipeline of blair                *)
(* (POST /api/posts/generate): scrape -> analyze -> search -> generate ->  *)
(* save, writing typed events to one UI message stream per run, with the   *)
(* generate_posts table shared by all runs.                                *)
(*                                                                         *)
(* A run is the async execute callback of one request.  JavaScript runs    *)
(* the code between two awaits without interruption, so there is one       *)
(* action per await outcome: the action is the code from the point where   *)
(* the awaited call settles up to the next await (or the end of execute).  *)
(***************************************************************************)
EXTENDS Integers, Sequences, FiniteSets, TLC

----------------------------------------------------------------------------
(* Bounds of the model *)

\* most token deltas the text stream of one run delivers
MaxDeltas == 2

\* most stream chunks the client receives for one assistant message
MaxParts == 4

\* the concurrent requests
Runs == {"r1", "r2"}

\* session users, and ids createId() can return
Users == {"u1", "u2"}

\* the users a request can come from: users are interchangeable, so the
\* first request is taken to be u1's and the other one is anybody's (the
\* same user or a different one)
UsersOf(r) == IF r = "r1" THEN {"u1"} ELSE Users

Ids == {"id1", "id2"}

\* token deltas the text stream may deliver (20 and 30 characters)
Deltas == {"aaaaaaaaaaaaaaaaaaaa", "bbbbbbbbbbbbbbbbbbbbbbbbbbbbbb"}

----------------------------------------------------------------------------
(* Program constants *)

TONE_WEIGHT_SIMILARITY_THRESHOLD == 80

PROGRESS_STAGES ==
  [SCRAPING |-> "scraping", ANALYZING |-> "analyzing", SEARCHING |-> "searching",
   GENERATING |-> "generating", SAVING |-> "saving"]

\* LIMIT of the similarity query
QueryLimit == 3

\* the character interval of the extra generating progress event
ProgressEvery == 50

\* stage order of the pipeline, as the code walks through it
StageOrder == <<"scraping", "analyzing", "searching", "generating", "saving">>

PlatformEnum == {"twitter", "instagram", "facebook", "linkedin"}
ToneEnum == {"witty", "professional", "inspirational", "casual", "direct", "empathetic"}

----------------------------------------------------------------------------
(* Optional values: <<>> is undefined / null, <<v>> is the value v *)

None == <<>>
Some(v) == <<v>>

\* a ?? b on an optional a
Coalesce(a, b) == IF a = None THEN b ELSE a[1]

\* String.prototype.includes
includes(s, sub) ==
  \E i \in 1..(Len(s) - Len(sub) + 1) : SubSeq(s, i, i + Len(sub) - 1) = sub

----------------------------------------------------------------------------
(* Stream parts (lib/types/streaming.ts) *)

createProgressData(stage, message, status) ==
  [type |-> "data-progress", stage |-> stage, message |-> message, status |-> status]

createNotificationData(message, level) ==
  [type |-> "data-notification", message |-> message, level |-> level]

createContentAnalysisData(a) ==
  [type |-> "data-content_analysis", content_summary |-> a.content_summary,
   content_type |-> a.content_type, target_audience |-> a.target_audience]

createTrainingPostsData(count, examples) ==
  [type |-> "data-training_posts", count |-> count, examples |-> examples]

createGeneratedPostData(content, platform) ==
  [type |-> "data-generated_post", content |-> content, platform |-> platform]

----------------------------------------------------------------------------
(* Values the external collaborators can produce *)

\* results of firecrawl.scrape: optional markdown, optional html
ScrapeResults ==
  { [markdown |-> m, html |-> h] : m \in {None, Some("text")}, h \in {None, Some("text")} }

\* results of generateObject: no object, an object with an empty summary,
\* or a full analysis
AnalysisObjects ==
  { [content_summary |-> s, content_type |-> ct, target_audience |-> "developers"] :
      s \in {"summary"}, ct \in {"tech_tutorial", "news_article"} }
  \cup { [content_summary |-> "", content_type |-> "other", target_audience |-> "other"] }

AnalysisResults == {None} \cup { Some(a) : a \in AnalysisObjects }

\* values an external call can throw: Error objects (with an optional
\* driver code) and a non-Error value
ThrownValues ==
  { [isError |-> TRUE, code |-> "", message |-> "connect ETIMEDOUT"],
    [isError |-> TRUE, code |-> "", message |-> "boom"],
    [isError |-> FALSE, code |-> "", message |-> ""] }

\* what the driver throws when the primary key of generate_posts is violated
UniqueViolations ==
  { [isError |-> TRUE, code |-> "23505",
     message |-> "duplicate key value violates unique constraint"],
    [isError |-> TRUE, code |-> "",
     message |-> "duplicate key value violates unique constraint"] }

\* request bodies: the valid one and ones the schema rejects
ValidToneProfile == << [tone |-> "witty", weight |-> 60], [tone |-> "direct", weight |-> 40] >>

RequestBodies ==
  { [original_url |-> u, platform |-> p, link_ownership_type |-> "own_content",
     tone_profile |-> tp] :
      u \in {"https://a.example/post", "not a url"},
      p \in {"twitter", "myspace"},
      tp \in {ValidToneProfile, <<>>} }

----------------------------------------------------------------------------
(* The rows training_posts holds when the requests arrive *)

SeededTrainingPosts ==
  { [id |-> "t1", post_content |-> "p1", platforms |-> "twitter",
     content_type |-> "tech_tutorial", target_audience |-> "developers",
     tone_profile |-> << [tone |-> "witty", weight |-> 55], [tone |-> "direct", weight |-> 45] >>],
    [id |-> "t2", post_content |-> "p2", platforms |-> "twitter",
     content_type |-> "tech_tutorial", target_audience |-> "developers",
     tone_profile |-> << [tone |-> "casual", weight |-> 100] >>],
    [id |-> "t3", post_content |-> "p3", platforms |-> "linkedin",
     content_type |-> "news_article", target_audience |-> "marketers",
     tone_profile |-> << [tone |-> "witty", weight |-> 50] >>] }

----------------------------------------------------------------------------
(* Request validation (generatePostSchema = postFormSchema.pick(...)) *)

\* z.url(): the string parses as a URL with a scheme
IsUrl(u) == includes(u, "://")

ToneEntryValid(t) == t.tone \in ToneEnum /\ t.weight >= 0 /\ t.weight <= 100

\* variant: the tone profile is not validated
generatePostSchema_noToneCheck(body) ==
  /\ IsUrl(body.original_url)
  /\ body.platform \in PlatformEnum
  /\ body.link_ownership_type \in {"own_content", "third_party_content"}

generatePostSchema(body) ==
  /\ IsUrl(body.original_url)
  /\ body.platform \in PlatformEnum
  /\ body.link_ownership_type \in {"own_content", "third_party_content"}
  /\ Len(body.tone_profile) >= 1
  /\ \A i \in 1..Len(body.tone_profile) : ToneEntryValid(body.tone_profile[i])

----------------------------------------------------------------------------
(* The tone-similarity query (SQL built in the search stage) *)

Abs(x) == IF x < 0 THEN -x ELSE x

\* tone_match_score: the JOIN of the row's tone elements with the user's on
\* equal tone, one point per joined pair whose weights differ by at most
\* the threshold; COALESCE(SUM, 0)
ToneMatchScore(rowProfile, userProfile, threshold) ==
  Cardinality({ p \in (1..Len(rowProfile)) \X (1..Len(userProfile)) :
                  /\ rowProfile[p[1]].tone = userProfile[p[2]].tone
                  /\ Abs(rowProfile[p[1]].weight - userProfile[p[2]].weight) <= threshold })

\* variant: only the platform filter is applied
MatchesFilters_platformOnly(tp, platform, content_type, target_audience) ==
  platform # "" => tp.platforms = platform

\* WHERE 1=1 plus one AND per truthy filter value
MatchesFilters(tp, platform, content_type, target_audience) ==
  /\ (platform # "" => tp.platforms = platform)
  /\ (content_type # "" => tp.content_type = content_type)
  /\ (target_audience # "" => tp.target_audience = target_audience)

\* tone_match_score of a row against the request's profile
RowScore(tp, toneProfile) ==
  ToneMatchScore(tp.tone_profile, toneProfile, TONE_WEIGHT_SIMILARITY_THRESHOLD)

\* variant: the ORDER BY is missing, the rows come in any order
OrderByScoreDesc_unordered(M, toneProfile) ==
  { s \in [1..Cardinality(M) -> M] : \A i, j \in 1..Cardinality(M) : i # j => s[i] # s[j] }

\* ORDER BY tone_match_score DESC: every order the database may put the
\* selected rows in (rows of equal score come in any order)
OrderByScoreDesc(M, toneProfile) ==
  { s \in [1..Cardinality(M) -> M] :
      /\ \A i, j \in 1..Cardinality(M) : i # j => s[i] # s[j]
      /\ \A i, j \in 1..Cardinality(M) :
           i < j => RowScore(s[i], toneProfile) >= RowScore(s[j], toneProfile) }

\* variant: the LIMIT is missing
Limit_none(s, n) == s

\* LIMIT n
Limit(s, n) == SubSeq(s, 1, IF Len(s) < n THEN Len(s) ELSE n)

\* the whole query: WHERE filters, ORDER BY score DESC, LIMIT 3
ToneSimilarityQuery(corpus, platform, content_type, target_audience, toneProfile) ==
  LET M == { tp \in corpus : MatchesFilters(tp, platform, content_type, target_audience) }
  IN { Limit(s, QueryLimit) : s \in OrderByScoreDesc(M, toneProfile) }

\* results.rows.map(...) for streaming
MapExamplePosts(rows) ==
  [i \in 1..Len(rows) |->
     [content |-> rows[i].post_content, platform |-> rows[i].platforms,
      content_type |-> rows[i].content_type]]

FoundMessage(rows) == "Found " \o ToString(Len(rows)) \o " tone-similar posts"

----------------------------------------------------------------------------
(* Error handling helpers *)

\* variant: only a missing object counts, an empty summary passes
AnalysisFailed_nullOnly(res) == res = None

\* !analysis || !analysis.content_summary
AnalysisFailed(res) == res = None \/ res[1].content_summary = ""

\* variant: the emptiness check is missing
GenerationFailed_never(text) == FALSE

\* !generatedContent
GenerationFailed(text) == text = ""

\* variant: only the driver code is looked at
isUniqueViolation_codeOnly(err) == err.code = "23505"

\* dbError?.code === '23505' || dbError?.message?.includes('unique constraint')
isUniqueViolation(err) ==
  err.code = "23505" \/ includes(err.message, "unique constraint")

\* variant: an unclassified Error is reported with its own message
errorMessage_raw(err) ==
  IF ~err.isError THEN "Internal server error occurred"
  ELSE IF includes(err.message, "timeout") \/ includes(err.message, "ETIMEDOUT")
       THEN "Request timed out. Please try again."
  ELSE IF includes(err.message, "network") \/ includes(err.message, "ECONNREFUSED")
       THEN "Network error occurred. Please check your connection and try again."
  ELSE IF includes(err.message, "rate limit") \/ includes(err.message, "429")
       THEN "Rate limit exceeded. Please wait a moment and try again."
  ELSE err.message

\* the message the outer catch derives from the thrown value
errorMessage(err) ==
  IF ~err.isError THEN "Internal server error occurred"
  ELSE IF includes(err.message, "timeout") \/ includes(err.message, "ETIMEDOUT")
       THEN "Request timed out. Please try again."
  ELSE IF includes(err.message, "network") \/ includes(err.message, "ECONNREFUSED")
       THEN "Network error occurred. Please check your connection and try again."
  ELSE IF includes(err.message, "rate limit") \/ includes(err.message, "429")
       THEN "Rate limit exceeded. Please wait a moment and try again."
  ELSE "Internal server error occurred"

\* variant: the outer catch writes the progress part only
OuterCatchParts_noNotification(stage, err) ==
  << createProgressData(stage, errorMessage(err), "error") >>

\* the two parts the outer catch writes
OuterCatchParts(stage, err) ==
  << createProgressData(stage, errorMessage(err), "error"),
     createNotificationData(errorMessage(err), "error") >>

\* the two parts written when the analysis has no summary
AnalysisFailedParts ==
  << createProgressData(PROGRESS_STAGES.ANALYZING, "Failed to analyze website content", "error"),
     createNotificationData("Failed to analyze website content", "error") >>

\* variant: an empty generation ends the run without a notification
GenerationFailedParts_silent ==
  << createProgressData(PROGRESS_STAGES.GENERATING, "Failed to generate post content", "error") >>

\* the two parts written when no text was generated
GenerationFailedParts ==
  << createProgressData(PROGRESS_STAGES.GENERATING, "Failed to generate post content", "error"),
     createNotificationData("Failed to generate post content", "error") >>

\* the two parts written on a unique constraint violation
\* variant: the conflict is also announced as a success
ConflictParts_withSuccess ==
  << createProgressData(PROGRESS_STAGES.SAVING, "You have already added this URL", "error"),
     createNotificationData("Post generation completed successfully!", "success") >>

ConflictParts ==
  << createProgressData(PROGRESS_STAGES.SAVING, "You have already added this URL", "error"),
     createNotificationData("You have already added this URL", "error") >>

\* variant: the notification is written before the saving success part
SavedParts_notificationFirst ==
  << createNotificationData("Post generation completed successfully!", "success"),
     createProgressData(PROGRESS_STAGES.SAVING, "Post saved successfully", "success") >>

\* the two parts written after a successful insert
SavedParts ==
  << createProgressData(PROGRESS_STAGES.SAVING, "Post saved successfully", "success"),
     createNotificationData("Post generation completed successfully!", "success") >>

----------------------------------------------------------------------------
(* State *)

VARIABLES
  pc,               \* where each run is: the await it is suspended at
  response,         \* HTTP status of the response of each request (0: none yet)
  session,          \* session.user.id of each run
  submissionData,   \* the validated request body of each run
  currentStage,     \* the currentStage local of execute
  writer,           \* the parts each run has written to its stream, in order
  analysis,         \* the analysis object of each run (None before the stage)
  examplePosts,     \* the example posts of each run
  generatedContent, \* the text accumulated from the token stream
  content,          \* the scraped text handed to the analysis call in flight
  calls,            \* the external calls each run has started, with their outcome
  generate_posts,   \* the generate_posts table
  training_posts,   \* the training_posts table
  savedBefore,      \* history: a row for the run's (user, url) existed when it started
  cancelled,        \* the client of each run has disconnected
  retrieval,        \* one evaluation of the similarity query: its inputs and rows
  scoring,          \* one evaluation of tone_match_score: its inputs and scores
  client,           \* the chunks the form's chat hook received and the message parts it keeps
  toneSelector,     \* the value of the form's ToneSelector
  validation,       \* one request body put through the handler's validation
  route             \* one run of the streaming handler of generate/route.ts

vars == << pc, response, session, submissionData, currentStage, writer, content, analysis,
           examplePosts, generatedContent, calls, generate_posts, training_posts,
           savedBefore, cancelled, retrieval, scoring, client, toneSelector, validation,
           route >>

\* the variables of the specifications that look at one part on its own
sideVars == << retrieval, scoring, client, toneSelector, validation, route >>

\* no query / no score is being evaluated
NoRetrieval ==
  [phase |-> "idle", corpus |-> {}, platform |-> "", content_type |-> "",
   target_audience |-> "", tone_profile |-> << >>, rows |-> << >>]

NoScoring ==
  [phase |-> "idle", rowProfile |-> << >>, userProfile |-> << >>,
   threshold |-> 0, lower |-> 0, score |-> 0, scoreLower |-> 0]

\* the form's initial values
DEFAULT_TONE_WEIGHTS == [direct |-> 60, inspirational |-> 40]

DEFAULT_FORM_VALUES ==
  [original_url |-> "", platform |-> "twitter", link_ownership_type |-> "third_party_content",
   tone_profile |-> << [tone |-> "direct", weight |-> DEFAULT_TONE_WEIGHTS.direct],
                       [tone |-> "inspirational", weight |-> DEFAULT_TONE_WEIGHTS.inspirational] >>]

NoBody ==
  [original_url |-> "", platform |-> "", link_ownership_type |-> "", tone_profile |-> <<>>]

\* nothing received, nothing validated, no run of the route.ts handler
NoClient == [delivered |-> << >>, parts |-> << >>]

NoValidation == [phase |-> "idle", status |-> 0, body |-> NoBody, submissionData |-> NoBody]

NoRoute ==
  [pc |-> "idle", status |-> 0, session |-> "", submissionData |-> NoBody,
   analysis |-> None, toneProfile |-> << >>, rows |-> << >>, writer |-> << >>,
   generatedContent |-> "", deltas |-> 0, raisedIn |-> ""]

\* no request has arrived
PipelineInit ==
  /\ pc = [r \in Runs |-> "idle"]
  /\ response = [r \in Runs |-> 0]
  /\ session = [r \in Runs |-> ""]
  /\ submissionData = [r \in Runs |-> NoBody]
  /\ currentStage = [r \in Runs |-> PROGRESS_STAGES.SCRAPING]
  /\ writer = [r \in Runs |-> <<>>]
  /\ content = [r \in Runs |-> ""]
  /\ analysis = [r \in Runs |-> None]
  /\ examplePosts = [r \in Runs |-> <<>>]
  /\ generatedContent = [r \in Runs |-> ""]
  /\ calls = [r \in Runs |-> <<>>]
  /\ generate_posts = {}
  /\ training_posts = SeededTrainingPosts
  /\ savedBefore = [r \in Runs |-> FALSE]
  /\ cancelled = [r \in Runs |-> FALSE]

Init ==
  /\ PipelineInit
  /\ retrieval = NoRetrieval
  /\ scoring = NoScoring
  /\ client = NoClient
  /\ toneSelector = DEFAULT_FORM_VALUES.tone_profile
  /\ validation = NoValidation
  /\ route = NoRoute

----------------------------------------------------------------------------
(* Helpers on the state *)

\* variant: one writer shared by all runs
Write_shared(r, parts) == writer' = [q \in Runs |-> writer[q] \o parts]

\* writer.write of several parts in order
Write(r, parts) == writer' = [writer EXCEPT ![r] = writer[r] \o parts]

\* start an external call / record how the pending call settled
NoError == [isError |-> FALSE, code |-> "", message |-> ""]
StartCall(log, op) == Append(log, [op |-> op, outcome |-> "pending", error |-> NoError])
Returned(log) == [log EXCEPT ![Len(log)].outcome = "returned"]
Threw(log, err) == [log EXCEPT ![Len(log)].outcome = "threw", ![Len(log)].error = err]

\* the number of token deltas consumed so far: one generated_post part each
DeltasSeen(r) ==
  Cardinality({ i \in 1..Len(writer[r]) : writer[r][i].type = "data-generated_post" })

\* the row db.insert(generate_posts).values(insertData) writes
\* variant: the row stores the scraped page instead of the generated text
insertData_scrapedContent(r, id) ==
  [id |-> id,
   original_url |-> submissionData[r].original_url,
   post_content |-> content[r],
   platform |-> submissionData[r].platform,
   content_type |-> analysis[r][1].content_type,
   content_summary |-> analysis[r][1].content_summary,
   target_audience |-> analysis[r][1].target_audience,
   link_ownership_type |-> submissionData[r].link_ownership_type,
   user_id |-> session[r]]

insertData(r, id) ==
  [id |-> id,
   original_url |-> submissionData[r].original_url,
   post_content |-> generatedContent[r],
   platform |-> submissionData[r].platform,
   content_type |-> analysis[r][1].content_type,
   content_summary |-> analysis[r][1].content_summary,
   target_audience |-> analysis[r][1].target_audience,
   link_ownership_type |-> submissionData[r].link_ownership_type,
   user_id |-> session[r]]

\* the constraints of generate_posts: the primary key on id, nothing else
ViolatesConstraint(table, row) == \E old \in table : old.id = row.id

----------------------------------------------------------------------------
(* Actions *)

\* POST up to the first await of execute: authentication, body parsing,
\* validation, then the first two progress parts and the scrape call
POST(r, sess, bodyOk, body) ==
  /\ pc[r] = "idle"
  /\ IF sess = None
       THEN /\ pc' = [pc EXCEPT ![r] = "rejected"]
            /\ response' = [response EXCEPT ![r] = 401]
            /\ UNCHANGED << session, submissionData, currentStage, writer, calls, savedBefore >>
     ELSE IF ~bodyOk
       THEN /\ pc' = [pc EXCEPT ![r] = "rejected"]
            /\ response' = [response EXCEPT ![r] = 400]
            /\ UNCHANGED << session, submissionData, currentStage, writer, calls, savedBefore >>
     ELSE IF ~generatePostSchema(body)
       THEN /\ pc' = [pc EXCEPT ![r] = "rejected"]
            /\ response' = [response EXCEPT ![r] = 422]
            /\ UNCHANGED << session, submissionData, currentStage, writer, calls, savedBefore >>
     ELSE /\ pc' = [pc EXCEPT ![r] = "scrape"]
          /\ response' = [response EXCEPT ![r] = 200]
          /\ session' = [session EXCEPT ![r] = sess[1]]
          /\ submissionData' = [submissionData EXCEPT ![r] = body]
          /\ currentStage' = [currentStage EXCEPT ![r] = PROGRESS_STAGES.SCRAPING]
          /\ Write(r, << createProgressData(PROGRESS_STAGES.SCRAPING,
                                            "Starting post generation...", "loading"),
                         createProgressData(PROGRESS_STAGES.SCRAPING,
                                            "Scraping website content...", "loading") >>)
          /\ calls' = [calls EXCEPT ![r] = StartCall(@, "firecrawl.scrape")]
          /\ savedBefore' = [savedBefore EXCEPT ![r] =
                               \E row \in generate_posts :
                                  /\ row.user_id = sess[1]
                                  /\ row.original_url = body.original_url]
  /\ UNCHANGED << content, analysis, examplePosts, generatedContent, generate_posts,
                  cancelled, training_posts, sideVars >>

\* the text handed to the analysis:
\* (scrapedContent.markdown ?? scrapedContent.html ?? '').slice(0, 100000)
slicedContent(scrapedContent) ==
  Coalesce(scrapedContent.markdown, Coalesce(scrapedContent.html, ""))

\* firecrawl.scrape resolves: the run enters the analyzing stage and calls
\* generateObject on the scraped text
ScrapeReturns(r, scrapedContent) ==
  /\ pc[r] = "scrape"
  /\ pc' = [pc EXCEPT ![r] = "analyze"]
  /\ currentStage' = [currentStage EXCEPT ![r] = PROGRESS_STAGES.ANALYZING]
  /\ Write(r, << createProgressData(PROGRESS_STAGES.ANALYZING,
                                    "Analyzing scraped content...", "loading") >>)
  /\ calls' = [calls EXCEPT ![r] =
                 StartCall(Returned(@), "generateObject")]
  /\ content' = [content EXCEPT ![r] = slicedContent(scrapedContent)]
  /\ UNCHANGED << response, session, submissionData, analysis, examplePosts,
                  generatedContent, generate_posts, savedBefore, cancelled, training_posts, sideVars >>

\* generateObject resolves: without a summary the run ends with an
\* analyzing error; otherwise it enters the searching stage and runs the query
AnalyzeReturns(r, res) ==
  /\ pc[r] = "analyze"
  /\ IF AnalysisFailed(res)
       THEN /\ pc' = [pc EXCEPT ![r] = "done"]
            /\ Write(r, AnalysisFailedParts)
            /\ calls' = [calls EXCEPT ![r] = Returned(@)]
            /\ UNCHANGED currentStage
       ELSE /\ pc' = [pc EXCEPT ![r] = "search"]
            /\ currentStage' = [currentStage EXCEPT ![r] = PROGRESS_STAGES.SEARCHING]
            /\ Write(r, << createProgressData(PROGRESS_STAGES.ANALYZING,
                                              "Content analysis completed", "success"),
                           createContentAnalysisData(res[1]),
                           createProgressData(PROGRESS_STAGES.SEARCHING,
                                              "Searching for tone-similar posts...", "loading") >>)
            /\ calls' = [calls EXCEPT ![r] =
                           StartCall(Returned(@), "db.execute")]
  /\ analysis' = [analysis EXCEPT ![r] = res]
  /\ content' = [content EXCEPT ![r] = ""]
  /\ UNCHANGED << response, session, submissionData, examplePosts, generatedContent,
                  generate_posts, savedBefore, cancelled, training_posts, sideVars >>

\* the row sequences a query with LIMIT QueryLimit can return, over the rows
\* the table is seeded with
RowSequences == UNION { [1..n -> SeededTrainingPosts] : n \in 0..QueryLimit }

\* variant: an empty result is reported as a searching error and ends the run
SearchReturns_emptyIsError(r, rows) ==
  /\ pc[r] = "search"
  /\ rows \in ToneSimilarityQuery(training_posts, submissionData[r].platform,
                                  analysis[r][1].content_type,
                                  analysis[r][1].target_audience,
                                  submissionData[r].tone_profile)
  /\ examplePosts' = [examplePosts EXCEPT ![r] = MapExamplePosts(rows)]
  /\ generatedContent' = [generatedContent EXCEPT ![r] = ""]
  /\ IF Len(rows) = 0
       THEN /\ pc' = [pc EXCEPT ![r] = "done"]
            /\ Write(r, << createProgressData(PROGRESS_STAGES.SEARCHING,
                                              "No similar posts found", "error"),
                           createNotificationData("No similar posts found", "error") >>)
            /\ calls' = [calls EXCEPT ![r] = Returned(@)]
            /\ UNCHANGED currentStage
       ELSE /\ pc' = [pc EXCEPT ![r] = "generate"]
            /\ currentStage' = [currentStage EXCEPT ![r] = PROGRESS_STAGES.GENERATING]
            /\ Write(r, << createProgressData(PROGRESS_STAGES.SEARCHING,
                                              FoundMessage(rows), "success"),
                           createTrainingPostsData(Len(rows), MapExamplePosts(rows)),
                           createProgressData(PROGRESS_STAGES.GENERATING,
                                              "Generating post content...", "loading") >>)
            /\ calls' = [calls EXCEPT ![r] = StartCall(Returned(@), "streamText")]
  /\ UNCHANGED << response, session, submissionData, content, analysis, generate_posts,
                  savedBefore, cancelled, training_posts, sideVars >>

\* db.execute resolves with the rows of the similarity query: the run
\* reports them, enters the generating stage and opens the text stream
SearchReturns(r, rows) ==
  /\ pc[r] = "search"
  /\ rows \in ToneSimilarityQuery(training_posts, submissionData[r].platform,
                                  analysis[r][1].content_type,
                                  analysis[r][1].target_audience,
                                  submissionData[r].tone_profile)
  /\ pc' = [pc EXCEPT ![r] = "generate"]
  /\ examplePosts' = [examplePosts EXCEPT ![r] = MapExamplePosts(rows)]
  /\ currentStage' = [currentStage EXCEPT ![r] = PROGRESS_STAGES.GENERATING]
  /\ Write(r, << createProgressData(PROGRESS_STAGES.SEARCHING, FoundMessage(rows), "success"),
                 createTrainingPostsData(Len(rows), MapExamplePosts(rows)),
                 createProgressData(PROGRESS_STAGES.GENERATING,
                                    "Generating post content...", "loading") >>)
  /\ generatedContent' = [generatedContent EXCEPT ![r] = ""]
  /\ calls' = [calls EXCEPT ![r] =
                 StartCall(Returned(@), "streamText")]
  /\ UNCHANGED << response, session, submissionData, content, analysis, generate_posts,
                  savedBefore, cancelled, training_posts, sideVars >>

\* variant: the text is not forwarded while it is generated, only the
\* progress part is written
DeltaParts_progressOnly(text, platform) ==
  IF Len(text) % ProgressEvery = 0
    THEN << createProgressData(PROGRESS_STAGES.GENERATING,
              "Generating post content... (" \o ToString(Len(text)) \o " characters)",
              "loading") >>
    ELSE << >>

\* the parts written for one token delta: the cumulative text, and a
\* progress part when its length is a multiple of 50
DeltaParts(text, platform) ==
  << createGeneratedPostData(text, platform) >>
  \o (IF Len(text) % ProgressEvery = 0
        THEN << createProgressData(PROGRESS_STAGES.GENERATING,
                  "Generating post content... (" \o ToString(Len(text)) \o " characters)",
                  "loading") >>
        ELSE << >>)

\* the text stream yields one delta
StreamDelta(r, delta) ==
  /\ pc[r] = "generate"
  /\ DeltasSeen(r) < MaxDeltas
  /\ generatedContent' = [generatedContent EXCEPT ![r] = @ \o delta]
  /\ Write(r, DeltaParts(generatedContent[r] \o delta, submissionData[r].platform))
  /\ UNCHANGED << pc, response, session, submissionData, currentStage, content, analysis,
                  examplePosts, calls, generate_posts, savedBefore, cancelled, training_posts, sideVars >>

\* variant: the return after the generating error is missing, the run goes
\* on to the saving stage
StreamEnds_noReturn(r) ==
  /\ pc[r] = "generate"
  /\ pc' = [pc EXCEPT ![r] = "insert"]
  /\ currentStage' = [currentStage EXCEPT ![r] = PROGRESS_STAGES.SAVING]
  /\ Write(r, (IF generatedContent[r] = "" THEN GenerationFailedParts ELSE << >>)
              \o << createProgressData(PROGRESS_STAGES.GENERATING,
                                       "Post content generated successfully", "success"),
                    createProgressData(PROGRESS_STAGES.SAVING,
                                       "Saving post to database...", "loading") >>)
  /\ calls' = [calls EXCEPT ![r] = StartCall(Returned(@), "db.insert")]
  /\ UNCHANGED << response, session, submissionData, content, analysis, examplePosts,
                  generatedContent, generate_posts, savedBefore, cancelled, training_posts, sideVars >>

\* the text stream ends: with no text the run ends with a generating error;
\* otherwise it enters the saving stage and starts the insert
StreamEnds(r) ==
  /\ pc[r] = "generate"
  /\ IF GenerationFailed(generatedContent[r])
       THEN /\ pc' = [pc EXCEPT ![r] = "done"]
            /\ Write(r, GenerationFailedParts)
            /\ calls' = [calls EXCEPT ![r] = Returned(@)]
            /\ UNCHANGED currentStage
       ELSE /\ pc' = [pc EXCEPT ![r] = "insert"]
            /\ currentStage' = [currentStage EXCEPT ![r] = PROGRESS_STAGES.SAVING]
            /\ Write(r, << createProgressData(PROGRESS_STAGES.GENERATING,
                                              "Post content generated successfully", "success"),
                           createProgressData(PROGRESS_STAGES.SAVING,
                                              "Saving post to database...", "loading") >>)
            /\ calls' = [calls EXCEPT ![r] =
                           StartCall(Returned(@), "db.insert")]
  /\ UNCHANGED << response, session, submissionData, content, analysis, examplePosts,
                  generatedContent, generate_posts, savedBefore, cancelled, training_posts, sideVars >>

\* variant: the outer catch always reports the first stage
CatchStage_stale(r) == PROGRESS_STAGES.SCRAPING

\* the stage tag the outer catch puts on its error part
CatchStage(r) == currentStage[r]

\* the scrape, the analysis, the query or the text stream throws: the
\* outer catch reports the error under the current stage
ExternalCallThrows(r, err) ==
  /\ pc[r] \in {"scrape", "analyze", "search", "generate"}
  /\ pc' = [pc EXCEPT ![r] = "done"]
  /\ Write(r, OuterCatchParts(CatchStage(r), err))
  /\ calls' = [calls EXCEPT ![r] = Threw(@, err)]
  /\ content' = [content EXCEPT ![r] = ""]
  /\ UNCHANGED << response, session, submissionData, currentStage, analysis,
                  examplePosts, generatedContent, generate_posts, savedBefore, cancelled, training_posts, sideVars >>

\* variant: the insert replaces the row the table holds for the same
\* (user_id, original_url)
InsertSucceeds_upsert(r, id) ==
  /\ pc[r] = "insert"
  /\ ~ViolatesConstraint(generate_posts, insertData(r, id))
  /\ generate_posts' =
       { row \in generate_posts :
           ~(row.user_id = session[r] /\ row.original_url = submissionData[r].original_url) }
       \cup {insertData(r, id)}
  /\ pc' = [pc EXCEPT ![r] = "done"]
  /\ Write(r, SavedParts)
  /\ calls' = [calls EXCEPT ![r] = Returned(@)]
  /\ UNCHANGED << response, session, submissionData, currentStage, content, analysis,
                  examplePosts, generatedContent, savedBefore, cancelled, training_posts, sideVars >>

\* the insert succeeds: the row (with a fresh id) is in the table
InsertSucceeds(r, id) ==
  /\ pc[r] = "insert"
  /\ ~ViolatesConstraint(generate_posts, insertData(r, id))
  /\ generate_posts' = generate_posts \cup {insertData(r, id)}
  /\ pc' = [pc EXCEPT ![r] = "done"]
  /\ Write(r, SavedParts)
  /\ calls' = [calls EXCEPT ![r] = Returned(@)]
  /\ UNCHANGED << response, session, submissionData, currentStage, content, analysis,
                  examplePosts, generatedContent, savedBefore, cancelled, training_posts, sideVars >>

\* variant: the return after the conflict parts is missing, the error is
\* rethrown to the outer catch as well
InsertCatchParts_noReturn(stage, err) ==
  IF isUniqueViolation(err)
    THEN ConflictParts \o OuterCatchParts(stage, err)
    ELSE OuterCatchParts(stage, err)

\* the parts the catch around the insert writes (directly, or by rethrowing
\* to the outer catch)
InsertCatchParts(stage, err) ==
  IF isUniqueViolation(err) THEN ConflictParts ELSE OuterCatchParts(stage, err)

\* the insert throws: a constraint violation (when the generated id is
\* taken) or any other failure; no row is written
InsertThrows(r, err) ==
  /\ pc[r] = "insert"
  /\ \/ err \in ThrownValues
     \/ /\ err \in UniqueViolations
        /\ \E id \in Ids : ViolatesConstraint(generate_posts, insertData(r, id))
  /\ pc' = [pc EXCEPT ![r] = "done"]
  /\ Write(r, InsertCatchParts(CatchStage(r), err))
  /\ calls' = [calls EXCEPT ![r] = Threw(@, err)]
  /\ UNCHANGED << response, session, submissionData, currentStage, content, analysis,
                  examplePosts, generatedContent, generate_posts, savedBefore, cancelled, training_posts, sideVars >>

\* the steps of run r after the request was accepted
RunStep(r) ==
  \/ \E scrapedContent \in ScrapeResults : ScrapeReturns(r, scrapedContent)
  \/ \E res \in AnalysisResults : AnalyzeReturns(r, res)
  \/ \E rows \in RowSequences : SearchReturns(r, rows)
  \/ \E delta \in Deltas : StreamDelta(r, delta)
  \/ StreamEnds(r)
  \/ \E err \in ThrownValues : ExternalCallThrows(r, err)
  \/ \E id \in Ids : InsertSucceeds(r, id)
  \/ \E err \in ThrownValues \cup UniqueViolations : InsertThrows(r, err)

Next ==
  \E r \in Runs :
    \/ \E sess \in {None} \cup { Some(u) : u \in UsersOf(r) }, bodyOk \in BOOLEAN,
          body \in RequestBodies : POST(r, sess, bodyOk, body)
    \/ RunStep(r)

Spec == Init /\ [][Next]_vars

\* the client of a running request disconnects.  The handler never reads
\* request.signal and passes no abort signal to its calls: nothing of the
\* run changes
Disconnect(r) ==
  /\ pc[r] \in {"scrape", "analyze", "search", "generate", "insert"}
  /\ ~cancelled[r]
  /\ cancelled' = [cancelled EXCEPT ![r] = TRUE]
  /\ UNCHANGED << pc, response, session, submissionData, currentStage, writer, content,
                  analysis, examplePosts, generatedContent, calls, generate_posts,
                  savedBefore, training_posts, sideVars >>

NextCancel ==
  \/ Next
  \/ \E r \in Runs : Disconnect(r)

\* the pipeline with clients that may disconnect
CancelSpec == Init /\ [][NextCancel]_vars

\* every external call eventually returns or throws, and the callback of a
\* settled call runs: the steps of a started run are weakly fair
FairSpec == Spec /\ \A r \in Runs : WF_vars(RunStep(r))

----------------------------------------------------------------------------
(* Vocabulary of the properties *)

\* the parts of a given type a run wrote, in order
PartsOfType(r, type) == SelectSeq(writer[r], LAMBDA part : part.type = type)

ProgressParts(r) == PartsOfType(r, "data-progress")
NotificationParts(r) == PartsOfType(r, "data-notification")

ErrorProgressParts(r) == SelectSeq(ProgressParts(r), LAMBDA part : part.status = "error")
ErrorNotifications(r) == SelectSeq(NotificationParts(r), LAMBDA part : part.level = "error")

\* positions in writer[r] of the error progress parts and error notifications
ErrorProgressAt(r) ==
  { i \in 1..Len(writer[r]) :
      writer[r][i].type = "data-progress" /\ writer[r][i].status = "error" }
ErrorNotificationAt(r) ==
  { i \in 1..Len(writer[r]) :
      writer[r][i].type = "data-notification" /\ writer[r][i].level = "error" }

\* run r wrote a progress part with this stage and status
HasProgress(r, stage, status) ==
  \E i \in 1..Len(writer[r]) :
    /\ writer[r][i].type = "data-progress"
    /\ writer[r][i].stage = stage
    /\ writer[r][i].status = status

\* run r wrote a notification of this level
HasNotification(r, level) ==
  \E i \in 1..Len(writer[r]) :
    writer[r][i].type = "data-notification" /\ writer[r][i].level = level

\* run r started the external operation op
Called(r, op) == \E i \in 1..Len(calls[r]) : calls[r][i].op = op

\* the last external call of run r is op and has settled this way
LastCall(r, op, outcome) ==
  /\ Len(calls[r]) > 0
  /\ calls[r][Len(calls[r])].op = op
  /\ calls[r][Len(calls[r])].outcome = outcome

LastError(r) == calls[r][Len(calls[r])].error

\* the request of run r was accepted and its pipeline started
Started(r) == pc[r] \notin {"idle", "rejected"}

SameKey(r, q) ==
  /\ session[r] = session[q]
  /\ submissionData[r].original_url = submissionData[q].original_url

\* run r ended with a successful save
Saved(r) == pc[r] = "done" /\ LastCall(r, "db.insert", "returned")

\* the rows of generate_posts for the (user, url) of run r
RowsOfKey(r) ==
  { row \in generate_posts :
      row.user_id = session[r] /\ row.original_url = submissionData[r].original_url }

\* the stage in which the code makes each external call
StageOfCall(op) ==
  CASE op = "firecrawl.scrape" -> "scraping"
    [] op = "generateObject" -> "analyzing"
    [] op = "db.execute" -> "searching"
    [] op = "streamText" -> "generating"
    [] op = "db.insert" -> "saving"

\* the stage tags of the progress parts of run r, consecutive repeats collapsed
RECURSIVE Collapse(_)
Collapse(seq) ==
  IF Len(seq) <= 1 THEN seq
  ELSE IF seq[1] = seq[2] THEN Collapse(Tail(seq))
  ELSE << seq[1] >> \o Collapse(Tail(seq))

StageTags(r) == [i \in 1..Len(ProgressParts(r)) |-> ProgressParts(r)[i].stage]

IsPrefix(s, t) == Len(s) <= Len(t) /\ SubSeq(t, 1, Len(s)) = s

----------------------------------------------------------------------------
(* C1..C10: the orchestration of one run, and the save of concurrent runs *)

\* C1 (as claimed): of two runs with the same (user_id, original_url) at most
\* one ends with a successful save, and generate_posts never holds two rows
\* with the same (user_id, original_url).
C1_AtMostOneSavePerKey ==
  /\ \A r, q \in Runs : (r # q /\ Saved(r) /\ Saved(q)) => ~SameKey(r, q)
  /\ \A a, b \in generate_posts :
       (a.user_id = b.user_id /\ a.original_url = b.original_url) => a = b

\* C2 (as claimed): a run that starts after a row for its (user_id,
\* original_url) was saved does not save: once its insert has settled the
\* run has not ended with a successful save and the table still holds
\* exactly one row for the pair.
C2_LaterRunConflicts ==
  \A r \in Runs :
    (savedBefore[r] /\ pc[r] = "done" /\ Called(r, "db.insert")) =>
      /\ ~Saved(r)
      /\ Cardinality(RowsOfKey(r)) = 1

\* C3: in every run the stage tags of the progress parts, consecutive
\* repeats collapsed, are a prefix of scraping, analyzing, searching,
\* generating, saving.
C3_StageOrder ==
  \A r \in Runs : IsPrefix(Collapse(StageTags(r)), StageOrder)

C3_Witness ==
  \E r \in Runs :
    /\ pc[r] = "done"
    /\ Collapse(StageTags(r)) = StageOrder
    /\ HasProgress(r, "saving", "error")

\* C4: every run that passes validation eventually ends, and when it has
\* ended it has written a terminal notification (success or error).
C4_TerminalNotification ==
  \A r \in Runs :
    Started(r) ~> (pc[r] = "done" /\ (HasNotification(r, "success") \/ HasNotification(r, "error")))

C4_Witness ==
  \E r \in Runs :
    /\ pc[r] = "done"
    /\ LastCall(r, "streamText", "returned")
    /\ HasNotification(r, "error")

\* C5: when an external call of a run throws during stage S, the run writes
\* exactly one progress part with status error, its stage tag is S, and it
\* is followed by exactly one error notification.
C5_ThrowGivesOneStageError ==
  \A r \in Runs :
    (pc[r] = "done" /\ Len(calls[r]) > 0 /\ calls[r][Len(calls[r])].outcome = "threw") =>
      /\ Cardinality(ErrorProgressAt(r)) = 1
      /\ Cardinality(ErrorNotificationAt(r)) = 1
      /\ \A i \in ErrorProgressAt(r) :
           /\ writer[r][i].stage = StageOfCall(calls[r][Len(calls[r])].op)
           /\ \A j \in ErrorNotificationAt(r) : i < j

C5_Witness ==
  \E r \in Runs :
    /\ pc[r] = "done"
    /\ LastCall(r, "db.execute", "threw")
    /\ HasProgress(r, "searching", "error")

\* C6 (as claimed): a scrape that returns empty content (neither markdown
\* nor html) never leads to a call of the analysis: the analysis call is
\* never in flight on an empty scraped text.
C6_EmptyScrapeNeverAnalyzed ==
  \A r \in Runs : LastCall(r, "generateObject", "pending") => content[r] # ""

\* C7: the retrieval query is started only with an analysis that has a
\* non-empty content_summary; when the analysis has settled without one
\* (no object, empty summary, or the call threw) the run has ended with an
\* error part tagged analyzing and made no query, generation or insert.
C7_NoSummaryStopsAtAnalyzing ==
  \A r \in Runs :
    /\ Called(r, "db.execute") =>
         (analysis[r] # None /\ analysis[r][1].content_summary # "")
    /\ ( /\ Called(r, "generateObject")
         /\ ~LastCall(r, "generateObject", "pending")
         /\ (analysis[r] = None \/ analysis[r][1].content_summary = "") ) =>
         /\ pc[r] = "done"
         /\ HasProgress(r, "analyzing", "error")
         /\ ~Called(r, "db.execute")
         /\ ~Called(r, "streamText")
         /\ ~Called(r, "db.insert")

C7_Witness ==
  \E r \in Runs :
    /\ LastCall(r, "generateObject", "returned")
    /\ analysis[r] # None
    /\ analysis[r][1].content_summary = ""
    /\ HasProgress(r, "analyzing", "error")

\* C8: when the retrieval query returns zero rows the run writes a success
\* part for searching and goes on to generating with an empty example set;
\* it writes no searching error part and does not stop.
C8_EmptyRetrievalProceeds ==
  \A r \in Runs :
    (Called(r, "db.execute") /\ ~LastCall(r, "db.execute", "pending")
       /\ ~LastCall(r, "db.execute", "threw") /\ examplePosts[r] = << >>) =>
      /\ HasProgress(r, "searching", "success")
      /\ ~HasProgress(r, "searching", "error")
      /\ Called(r, "streamText")
      /\ HasProgress(r, "generating", "loading")

C8_Witness ==
  \E r \in Runs :
    /\ pc[r] = "generate"
    /\ examplePosts[r] = << >>
    /\ HasProgress(r, "searching", "success")

\* C9: the insert is started only with a non-empty generated text; when the
\* token stream has ended with empty text or thrown, the run has ended with
\* an error part tagged generating and started no insert.
C9_EmptyGenerationNotSaved ==
  \A r \in Runs :
    /\ Called(r, "db.insert") => generatedContent[r] # ""
    /\ ( \/ LastCall(r, "streamText", "threw")
         \/ (LastCall(r, "streamText", "returned") /\ generatedContent[r] = "") ) =>
         /\ pc[r] = "done"
         /\ HasProgress(r, "generating", "error")
         /\ ~Called(r, "db.insert")

C9_Witness ==
  \E r \in Runs :
    /\ LastCall(r, "streamText", "returned")
    /\ generatedContent[r] = ""
    /\ HasProgress(r, "generating", "error")

\* C10: when the insert fails with a uniqueness violation (code 23505 or a
\* message containing 'unique constraint') the run writes exactly one error
\* progress part, tagged saving and carrying the conflict message, and one
\* error notification; when it fails for another reason the run writes
\* exactly one error progress part, tagged saving, with the message of the
\* generic handler.
C10_InsertFailureHandling ==
  \A r \in Runs :
    (pc[r] = "done" /\ LastCall(r, "db.insert", "threw")) =>
      /\ Len(ErrorProgressParts(r)) = 1
      /\ Len(ErrorNotifications(r)) = 1
      /\ ErrorProgressParts(r)[1].stage = "saving"
      /\ IF LastError(r).code = "23505" \/ includes(LastError(r).message, "unique constraint")
           THEN /\ ErrorProgressParts(r)[1].message = "You have already added this URL"
                /\ ErrorNotifications(r)[1].message = "You have already added this URL"
           ELSE /\ ErrorProgressParts(r)[1].message # "You have already added this URL"
                /\ ErrorProgressParts(r)[1].message = ErrorNotifications(r)[1].message

C10_Witness ==
  \E r \in Runs :
    /\ pc[r] = "done"
    /\ LastCall(r, "db.insert", "threw")
    /\ LastError(r).code = ""
    /\ includes(LastError(r).message, "unique constraint")

----------------------------------------------------------------------------
(* C11..C14: cancellation, terminal statuses, single attempts, rejection *)

\* C11 (as claimed): once the client of a run has disconnected, the run
\* starts no further external call and writes no further part.
C11_CancelStopsRun ==
  [][\A r \in Runs :
       cancelled[r] => (Len(calls'[r]) = Len(calls[r]) /\ writer'[r] = writer[r])]_vars

\* the progress parts of run r for a stage that carry a terminal status
TerminalProgressAt(r, stage) ==
  { i \in 1..Len(writer[r]) :
      /\ writer[r][i].type = "data-progress"
      /\ writer[r][i].stage = stage
      /\ writer[r][i].status \in {"success", "error"} }

\* C12: in any run each stage has at most one progress part with a terminal
\* status (success or error).
C12_OneTerminalStatusPerStage ==
  \A r \in Runs :
    \A stage \in {"scraping", "analyzing", "searching", "generating", "saving"} :
      Cardinality(TerminalProgressAt(r, stage)) <= 1

C12_Witness ==
  \E r \in Runs :
    /\ pc[r] = "done"
    /\ HasProgress(r, "generating", "success")
    /\ HasProgress(r, "saving", "error")
    /\ includes(LastError(r).message, "unique constraint")

\* C13: within one run each external operation is started at most once,
\* every call before the last one has returned, and once a run has written
\* an error part it has ended with no call in flight.
C13_NoRetryNoLaterStage ==
  \A r \in Runs :
    /\ \A i, j \in 1..Len(calls[r]) : calls[r][i].op = calls[r][j].op => i = j
    /\ \A i \in 1..Len(calls[r]) : i < Len(calls[r]) => calls[r][i].outcome = "returned"
    /\ ErrorProgressAt(r) # {} =>
         /\ pc[r] = "done"
         /\ calls[r][Len(calls[r])].outcome # "pending"

C13_Witness ==
  \E r \in Runs :
    /\ pc[r] = "done"
    /\ HasProgress(r, "generating", "error")
    /\ Len(calls[r]) = 4
    /\ LastCall(r, "streamText", "returned")

\* C14: a request that is unauthenticated, has an unparseable body or fails
\* validation gets an error response (401, 400, 422) and its run writes no
\* part and makes no external call; a run that has started has a session
\* user and a body that satisfies the schema.
C14_RejectedBeforePipeline ==
  \A r \in Runs :
    /\ pc[r] = "rejected" =>
         /\ response[r] \in {400, 401, 422}
         /\ writer[r] = << >>
         /\ calls[r] = << >>
    /\ Started(r) =>
         /\ response[r] = 200
         /\ session[r] \in Users
         /\ includes(submissionData[r].original_url, "://")
         /\ submissionData[r].platform \in {"twitter", "instagram", "facebook", "linkedin"}
         /\ Len(submissionData[r].tone_profile) >= 1

C14_Witness ==
  \E r, q \in Runs :
    /\ pc[r] = "rejected" /\ response[r] = 422
    /\ pc[q] = "rejected" /\ response[q] = 401

----------------------------------------------------------------------------
(* The tone-similarity query and the tone match score on their own *)

pipelineVars ==
  << pc, response, session, submissionData, currentStage, writer, content, analysis,
     examplePosts, generatedContent, calls, generate_posts, training_posts, savedBefore,
     cancelled >>

\* rows a training_posts table can hold: the seeded ones and two more
\* twitter rows
CorpusPool ==
  SeededTrainingPosts \cup
  { [id |-> "t4", post_content |-> "p4", platforms |-> "twitter",
     content_type |-> "tech_tutorial", target_audience |-> "developers",
     tone_profile |-> << [tone |-> "witty", weight |-> 60], [tone |-> "direct", weight |-> 40] >>],
    [id |-> "t5", post_content |-> "p5", platforms |-> "twitter",
     content_type |-> "news_article", target_audience |-> "developers",
     tone_profile |-> << [tone |-> "witty", weight |-> 50] >>] }

\* the values the query is built from: submissionData.platform,
\* analysis.content_type and analysis.target_audience ("" when falsy) and
\* submissionData.tone_profile
RetrievalInputs ==
  { [phase |-> "ready", corpus |-> c, platform |-> p, content_type |-> ct,
     target_audience |-> ta, tone_profile |-> tp, rows |-> << >>] :
      c \in SUBSET CorpusPool,
      p \in {"twitter", "linkedin"},
      ct \in {"", "tech_tutorial", "news_article"},
      ta \in {"", "developers"},
      tp \in {ValidToneProfile, << [tone |-> "casual", weight |-> 50] >>} }

RetrievalInit ==
  /\ PipelineInit
  /\ retrieval \in RetrievalInputs
  /\ scoring = NoScoring
  /\ client = NoClient
  /\ toneSelector = DEFAULT_FORM_VALUES.tone_profile
  /\ validation = NoValidation
  /\ route = NoRoute

\* db.execute(toneSimilaritySql) resolves with some result of the query
Retrieve ==
  /\ retrieval.phase = "ready"
  /\ \E rows \in ToneSimilarityQuery(retrieval.corpus, retrieval.platform,
                                     retrieval.content_type, retrieval.target_audience,
                                     retrieval.tone_profile) :
       retrieval' = [retrieval EXCEPT !.phase = "done", !.rows = rows]
  /\ UNCHANGED << pipelineVars, scoring, client, toneSelector, validation, route >>

RetrievalNext == Retrieve

RetrievalSpec == RetrievalInit /\ [][RetrievalNext]_vars

\* tone profiles as stored and as accepted by validation: one or two
\* entries, a tone may repeat
ScoreWeights == {40, 45, 55, 60}

ScoreEntries == { [tone |-> t, weight |-> w] : t \in {"witty", "direct"}, w \in ScoreWeights }

ScoreProfiles ==
  { << e >> : e \in ScoreEntries } \cup { << e, f >> : e \in ScoreEntries, f \in ScoreEntries }

ScoreInputs ==
  { [phase |-> "ready", rowProfile |-> rp, userProfile |-> up, threshold |-> th,
     lower |-> lo, score |-> 0, scoreLower |-> 0] :
      rp \in ScoreProfiles, up \in ScoreProfiles,
      th \in {10, TONE_WEIGHT_SIMILARITY_THRESHOLD}, lo \in {0, 10} }

ScoreInit ==
  /\ PipelineInit
  /\ retrieval = NoRetrieval
  /\ scoring \in ScoreInputs
  /\ client = NoClient
  /\ toneSelector = DEFAULT_FORM_VALUES.tone_profile
  /\ validation = NoValidation
  /\ route = NoRoute

\* the score expression is evaluated at the threshold and at a lower one
Score ==
  /\ scoring.phase = "ready"
  /\ scoring' = [scoring EXCEPT
       !.phase = "done",
       !.score = ToneMatchScore(scoring.rowProfile, scoring.userProfile, scoring.threshold),
       !.scoreLower = ToneMatchScore(scoring.rowProfile, scoring.userProfile, scoring.lower)]
  /\ UNCHANGED << pipelineVars, retrieval, client, toneSelector, validation, route >>

ScoreNext == Score

ScoreSpec == ScoreInit /\ [][ScoreNext]_vars

----------------------------------------------------------------------------
(* C15..C20: retrieval and the tone match score *)

\* the rows of the queried corpus that carry every supplied filter value
RowsMatchingSupplied ==
  { tp \in retrieval.corpus :
      /\ (retrieval.platform # "" => tp.platforms = retrieval.platform)
      /\ (retrieval.content_type # "" => tp.content_type = retrieval.content_type)
      /\ (retrieval.target_audience # "" => tp.target_audience = retrieval.target_audience) }

ReturnedRows == { retrieval.rows[i] : i \in 1..Len(retrieval.rows) }

\* C15 (as claimed): whenever the corpus is not empty, retrieval returns a
\* non-empty example list (by relaxing the filters, then by recency).
C15_NonEmptyCorpusGivesExamples ==
  (retrieval.phase = "done" /\ retrieval.corpus # {}) => retrieval.rows # << >>

\* C16: retrieval returns between 0 and 3 rows, and for an empty corpus the
\* query has exactly one result, the empty list.
C16_AtMostKRows ==
  /\ retrieval.phase = "done" =>
       /\ Len(retrieval.rows) <= 3
       /\ (retrieval.corpus = {} => retrieval.rows = << >>)
  /\ (retrieval.phase = "ready" /\ retrieval.corpus = {}) =>
       ToneSimilarityQuery(retrieval.corpus, retrieval.platform, retrieval.content_type,
                           retrieval.target_audience, retrieval.tone_profile) = { << >> }

C16_Witness ==
  /\ retrieval.phase = "done"
  /\ Cardinality(RowsMatchingSupplied) > 3
  /\ Len(retrieval.rows) = 3

\* the tones that occur in both profiles with weights within the threshold,
\* and the tones that occur in both
TonesWithin(rowProfile, userProfile, threshold) ==
  { t \in ToneEnum :
      \E i \in 1..Len(rowProfile), j \in 1..Len(userProfile) :
        /\ rowProfile[i].tone = t
        /\ userProfile[j].tone = t
        /\ Abs(rowProfile[i].weight - userProfile[j].weight) <= threshold }

SharedTones(rowProfile, userProfile) ==
  { t \in ToneEnum :
      \E i \in 1..Len(rowProfile), j \in 1..Len(userProfile) :
        rowProfile[i].tone = t /\ userProfile[j].tone = t }

\* C17 (as claimed): the score equals the number of tones that occur in both
\* profiles with weights within the threshold.
C17_ScoreCountsSharedTones ==
  scoring.phase = "done" =>
    scoring.score =
      Cardinality(TonesWithin(scoring.rowProfile, scoring.userProfile, scoring.threshold))

\* C18 (as claimed): the score does not increase when the threshold is
\* lowered, and when every shared tone is within the threshold the score is
\* the number of shared tones.
C18_ScoreMonotoneAndMaximal ==
  scoring.phase = "done" =>
    /\ (scoring.lower <= scoring.threshold => scoring.scoreLower <= scoring.score)
    /\ (\A i \in 1..Len(scoring.rowProfile), j \in 1..Len(scoring.userProfile) :
          scoring.rowProfile[i].tone = scoring.userProfile[j].tone =>
            Abs(scoring.rowProfile[i].weight - scoring.userProfile[j].weight)
              <= scoring.threshold)
         => scoring.score = Cardinality(SharedTones(scoring.rowProfile, scoring.userProfile))

\* the score of a row against the query profile, at the handler's threshold
ScoreOfRow(tp) ==
  Cardinality({ p \in (1..Len(tp.tone_profile)) \X (1..Len(retrieval.tone_profile)) :
                  /\ tp.tone_profile[p[1]].tone = retrieval.tone_profile[p[2]].tone
                  /\ Abs(tp.tone_profile[p[1]].weight - retrieval.tone_profile[p[2]].weight)
                       <= 80 })

\* C19: the returned rows are in non-increasing score order and no matching
\* row that was left out has a strictly higher score than a returned row.
C19_TopKByScore ==
  retrieval.phase = "done" =>
    /\ \A i, j \in 1..Len(retrieval.rows) :
         i < j => ScoreOfRow(retrieval.rows[i]) >= ScoreOfRow(retrieval.rows[j])
    /\ \A tp \in RowsMatchingSupplied \ ReturnedRows :
         \A i \in 1..Len(retrieval.rows) : ScoreOfRow(retrieval.rows[i]) >= ScoreOfRow(tp)
    /\ ReturnedRows \subseteq RowsMatchingSupplied
    /\ Len(retrieval.rows) = Cardinality(ReturnedRows)
    /\ (RowsMatchingSupplied \ ReturnedRows # {} => Len(retrieval.rows) = 3)

C19_Witness ==
  /\ retrieval.phase = "done"
  /\ Len(retrieval.rows) = 3
  /\ ScoreOfRow(retrieval.rows[1]) > ScoreOfRow(retrieval.rows[3])
  /\ \E tp \in RowsMatchingSupplied \ ReturnedRows :
       ScoreOfRow(tp) < ScoreOfRow(retrieval.rows[3])

\* C20: every returned row carries each supplied filter value: the request
\* platform, the analysed content_type and the analysed target_audience.
C20_ReturnedRowsMatchFilters ==
  retrieval.phase = "done" =>
    \A i \in 1..Len(retrieval.rows) :
      /\ (retrieval.platform # "" => retrieval.rows[i].platforms = retrieval.platform)
      /\ (retrieval.content_type # "" =>
            retrieval.rows[i].content_type = retrieval.content_type)
      /\ (retrieval.target_audience # "" =>
            retrieval.rows[i].target_audience = retrieval.target_audience)

C20_Witness ==
  /\ retrieval.phase = "done"
  /\ retrieval.platform # "" /\ retrieval.content_type # "" /\ retrieval.target_audience # ""
  /\ retrieval.rows # << >>
  /\ \E tp \in retrieval.corpus :
       tp.platforms = retrieval.platform /\ tp.content_type # retrieval.content_type

----------------------------------------------------------------------------
(* C21..C30: streaming, independence of runs, messages, effects *)

\* the contents of the generated_post parts of run r, in order
GeneratedPostContents(r) ==
  LET parts == PartsOfType(r, "data-generated_post")
  IN [i \in 1..Len(parts) |-> parts[i].content]

\* C21: at every point of the generating stage the generated_post parts
\* written so far form a strictly growing prefix chain and the last one
\* carries all the text consumed so far: one part per delta, written before
\* the next delta is taken, nothing held back.
C21_ChunkPerDelta ==
  \A r \in Runs :
    LET c == GeneratedPostContents(r)
    IN /\ \A i, j \in 1..Len(c) : i < j => (IsPrefix(c[i], c[j]) /\ c[i] # c[j])
       /\ generatedContent[r] = "" => Len(c) = 0
       /\ generatedContent[r] # "" => (Len(c) > 0 /\ c[Len(c)] = generatedContent[r])

C21_Witness ==
  \E r \in Runs :
    /\ pc[r] = "generate"
    /\ Len(GeneratedPostContents(r)) = 2
    /\ GeneratedPostContents(r)[1] # generatedContent[r]

\* everything that belongs to one run
Local(r) ==
  << pc[r], response[r], session[r], submissionData[r], currentStage[r], writer[r],
     content[r], analysis[r], examplePosts[r], generatedContent[r], calls[r],
     savedBefore[r] >>

\* C24: a step of one run leaves the state and the events of every other
\* run unchanged, and the row it inserts carries its own user, url and text;
\* this holds for any two runs, so for runs with different
\* (user_id, original_url) pairs.
C24_RunsIndependent ==
  [][\A r, q \in Runs :
       (r # q /\ Local(q)' # Local(q)) =>
         /\ Local(r)' = Local(r)
         /\ \A row \in generate_posts' \ generate_posts :
              /\ row.user_id = session[q]
              /\ row.original_url = submissionData[q].original_url
              /\ row.post_content = generatedContent[q]]_vars

C24_Witness ==
  \E r, q \in Runs :
    /\ ~SameKey(r, q)
    /\ Saved(r) /\ Saved(q)
    /\ Cardinality(RowsOfKey(r)) = 1 /\ Cardinality(RowsOfKey(q)) = 1

\* the messages an error part can carry
ErrorMessages ==
  { "Request timed out. Please try again.",
    "Network error occurred. Please check your connection and try again.",
    "Rate limit exceeded. Please wait a moment and try again.",
    "Internal server error occurred",
    "Failed to analyze website content",
    "Failed to generate post content",
    "You have already added this URL" }

\* C25: the message of every error progress part and error notification is
\* one of seven fixed strings, and no part carries the message of a thrown
\* exception.
C25_FixedErrorMessages ==
  \A r \in Runs :
    \A i \in 1..Len(writer[r]) :
      LET part == writer[r][i]
      IN /\ (part.type = "data-progress" /\ part.status = "error") =>
              part.message \in ErrorMessages
         /\ (part.type = "data-notification" /\ part.level = "error") =>
              part.message \in ErrorMessages
         /\ part.type \in {"data-progress", "data-notification"} =>
              \A k \in 1..Len(calls[r]) :
                calls[r][k].error.message # "" =>
                  ~includes(part.message, calls[r][k].error.message)

C25_Witness ==
  \E r \in Runs :
    /\ pc[r] = "done"
    /\ LastCall(r, "generateObject", "threw")
    /\ LastError(r).message = "boom"
    /\ HasNotification(r, "error")

\* C27: a run writes at most one notification, a notification is the last
\* part of its stream, and a run that has ended has written exactly one.
C27_OneFinalNotification ==
  \A r \in Runs :
    /\ Len(NotificationParts(r)) <= 1
    /\ \A i \in 1..Len(writer[r]) :
         writer[r][i].type = "data-notification" => (i = Len(writer[r]) /\ pc[r] = "done")
    /\ pc[r] = "done" => Len(NotificationParts(r)) = 1

C27_Witness ==
  \E r \in Runs :
    /\ Saved(r)
    /\ writer[r][Len(writer[r])].type = "data-notification"
    /\ writer[r][Len(writer[r])].level = "success"
    /\ Len(writer[r]) >= 12

\* C28: no step changes training_posts; a step never removes or changes a
\* row of generate_posts and adds at most one, and the row is added by a run
\* that ends with that step, so a run writes at most one row.
C28_TableEffects ==
  [][/\ training_posts' = training_posts
     /\ generate_posts \subseteq generate_posts'
     /\ Cardinality(generate_posts' \ generate_posts) <= 1
     /\ generate_posts' # generate_posts =>
          \E r \in Runs : pc[r] = "insert" /\ pc'[r] = "done"]_vars

C28_Witness ==
  /\ Cardinality(generate_posts) = 2
  /\ \A r \in Runs : Saved(r)
  /\ training_posts = SeededTrainingPosts

----------------------------------------------------------------------------
(* The client: the chat hook of the generate form materialises the stream   *)
(* (components/forms/generate-post-form.tsx and its other versions)         *)

\* chunks a run can deliver to the browser; createStreamingData gives none of
\* them an id, createNotificationData marks notifications transient
ClientChunks ==
  { createGeneratedPostData("Hello", "twitter"),
    createGeneratedPostData("Hello world", "twitter"),
    createProgressData(PROGRESS_STAGES.GENERATING, "Generating post content...", "loading"),
    createNotificationData("Post generation completed successfully!", "success"),
    createNotificationData("You have already added this URL", "error") }

\* a transient chunk is handed to onData only and never stored in the message
transient(chunk) == chunk.type = "data-notification"

ClientInit ==
  /\ PipelineInit
  /\ retrieval = NoRetrieval
  /\ scoring = NoScoring
  /\ client = NoClient
  /\ toneSelector = DEFAULT_FORM_VALUES.tone_profile
  /\ validation = NoValidation
  /\ route = NoRoute

\* useChat receives one chunk: a data part without an id is appended to the
\* parts of the last message unless it is transient
Deliver(chunk) ==
  /\ Len(client.delivered) < MaxParts
  /\ client' = [delivered |-> Append(client.delivered, chunk),
                parts |-> IF transient(chunk) THEN client.parts
                          ELSE Append(client.parts, chunk)]
  /\ UNCHANGED << pipelineVars, retrieval, scoring, toneSelector, validation, route >>

ClientNext == \E chunk \in ClientChunks : Deliver(chunk)

ClientSpec == ClientInit /\ [][ClientNext]_vars

\* the generated_post parts of the last message, in order
generatedPostParts(parts) == SelectSeq(parts, LAMBDA part : part.type = "data-generated_post")

RECURSIVE JoinContents(_)
JoinContents(parts) ==
  IF parts = << >> THEN "" ELSE parts[1].content \o JoinContents(Tail(parts))

\* a view that appends the content of every generated_post part
generatedPost_appendAll(parts) ==
  IF generatedPostParts(parts) = << >> THEN None
  ELSE Some(JoinContents(generatedPostParts(parts)))

\* generate-post-form.tsx: parts.find(type = data-generated_post)?.data, the
\* FIRST generated_post part of the last message; its content is displayed
generatedPost(parts) ==
  IF generatedPostParts(parts) = << >> THEN None
  ELSE Some(generatedPostParts(parts)[1].content)

\* the other versions of the form: the LAST generated_post part
generatedPostLast(parts) ==
  IF generatedPostParts(parts) = << >> THEN None
  ELSE Some(generatedPostParts(parts)[Len(generatedPostParts(parts))].content)

\* the generated_post chunks delivered so far
DeliveredPosts == generatedPostParts(client.delivered)

\* C22: after any sequence of delivered generated_post events the form's
\* current generated text is the content of the most recently delivered one
C22_ViewIsLatestChunk ==
  DeliveredPosts # << >> =>
    generatedPost(client.parts) = Some(DeliveredPosts[Len(DeliveredPosts)].content)

\* the last two chunks delivered are the same generated_post chunk
SameChunkTwice(delivered) ==
  /\ Len(delivered) >= 2
  /\ delivered[Len(delivered)].type = "data-generated_post"
  /\ delivered[Len(delivered) - 1] = delivered[Len(delivered)]

\* C23: delivering the same generated_post content twice in a row leaves the
\* current generated text unchanged, in the form that shows the first part
\* and in the versions that show the last part
C23_RepeatedChunkNoChange ==
  [][(client'.delivered # client.delivered /\ SameChunkTwice(client'.delivered)) =>
       /\ generatedPost(client'.parts) = generatedPost(client.parts)
       /\ generatedPostLast(client'.parts) = generatedPostLast(client.parts)]_vars

C23_Witness ==
  /\ SameChunkTwice(client.delivered)
  /\ generatedPost(client.parts) = Some("Hello")
  /\ generatedPostLast(client.parts) = Some("Hello")

----------------------------------------------------------------------------
(* The generate form's tone selector and the validation of the request body *)
(* (components/forms/generate-post-form.tsx, app/api/posts/generate/route.ts) *)

\* tones the user picks in the selector, and weights the slider hands to
\* updateWeight (out-of-range values included)
SelectorTones == {"direct", "inspirational", "casual"}

SliderWeights == {-10, 40, 150}

DuplicateToneProfile == << [tone |-> "witty", weight |-> 50], [tone |-> "witty", weight |-> 50] >>

\* JSON bodies a caller can post directly: tone_profile omitted, empty, valid,
\* or listing one tone twice
DirectBodies ==
  { [original_url |-> u, platform |-> "twitter", link_ownership_type |-> "own_content",
     tone_profile |-> tp] :
      u \in {"https://a.example/post", "not a url"},
      tp \in {None, Some(<< >>), Some(ValidToneProfile), Some(DuplicateToneProfile)} }

RECURSIVE totalWeight(_)
totalWeight(value) ==
  IF value = << >> THEN 0 ELSE value[1].weight + totalWeight(Tail(value))

Max(a, b) == IF a > b THEN a ELSE b

Min(a, b) == IF a < b THEN a ELSE b

FormInit ==
  /\ PipelineInit
  /\ retrieval = NoRetrieval
  /\ scoring = NoScoring
  /\ client = NoClient
  /\ toneSelector = DEFAULT_FORM_VALUES.tone_profile
  /\ validation = NoValidation
  /\ route = NoRoute

formFrame == << pipelineVars, retrieval, scoring, client, route >>

\* addTone: a tone not yet listed is appended with the weight that remains
addTone(toneValue) ==
  /\ toneSelector' =
       IF \A i \in 1..Len(toneSelector) : toneSelector[i].tone # toneValue
       THEN LET remainingWeight == 100 - totalWeight(toneSelector)
            IN  Append(toneSelector,
                       [tone |-> toneValue,
                        weight |-> IF remainingWeight > 0 THEN remainingWeight ELSE 0])
       ELSE toneSelector
  /\ UNCHANGED << formFrame, validation >>

removeTone(toneValue) ==
  /\ toneSelector' = SelectSeq(toneSelector, LAMBDA t : t.tone # toneValue)
  /\ UNCHANGED << formFrame, validation >>

updateWeight(toneValue, weight) ==
  /\ toneSelector' =
       [i \in 1..Len(toneSelector) |->
          IF toneSelector[i].tone = toneValue
          THEN [toneSelector[i] EXCEPT !.weight = Max(0, Min(100, weight))]
          ELSE toneSelector[i]]
  /\ UNCHANGED << formFrame, validation >>

resetForm ==
  /\ toneSelector' = DEFAULT_FORM_VALUES.tone_profile
  /\ UNCHANGED << formFrame, validation >>

\* the form's own schema: at least one tone, weights in range, sum exactly 100
createPostFormSchema(data) ==
  /\ generatePostSchema(data)
  /\ totalWeight(data.tone_profile) = 100

\* generatePostSchema.safeParse(body): tone_profile is a required field
safeParse(body) ==
  /\ body.tone_profile # None
  /\ generatePostSchema([body EXCEPT !.tone_profile = body.tone_profile[1]])

\* the handler up to submissionData: 400 on a failed parse, else the
\* validated body with the casual default for a missing or empty profile
Validated(body) ==
  IF ~safeParse(body)
  THEN [phase |-> "rejected", status |-> 400, body |-> body, submissionData |-> NoBody]
  ELSE [phase |-> "accepted", status |-> 200, body |-> body,
        submissionData |->
          [body EXCEPT !.tone_profile =
             IF body.tone_profile # None /\ Len(body.tone_profile[1]) > 0
             THEN body.tone_profile[1]
             ELSE << [tone |-> "casual", weight |-> 50] >>]]

\* a caller posts a body directly
Validate(body) ==
  /\ validation' = Validated(body)
  /\ UNCHANGED << formFrame, toneSelector >>

\* the form posts its values once its own schema accepts them
onSubmit ==
  LET data == [DEFAULT_FORM_VALUES EXCEPT !.original_url = "https://a.example/post",
                                          !.tone_profile = toneSelector]
  IN  /\ createPostFormSchema(data)
      /\ validation' = Validated([data EXCEPT !.tone_profile = Some(toneSelector)])
      /\ UNCHANGED << formFrame, toneSelector >>

FormNext ==
  \/ \E t \in SelectorTones : addTone(t)
  \/ \E t \in SelectorTones : removeTone(t)
  \/ \E t \in SelectorTones, w \in SliderWeights : updateWeight(t, w)
  \/ resetForm
  \/ onSubmit
  \/ \E body \in DirectBodies : Validate(body)

FormSpec == FormInit /\ [][FormNext]_vars

\* each tone is listed at most once
TonesDistinct(profile) ==
  \A i, j \in 1..Len(profile) : profile[i].tone = profile[j].tone => i = j

\* C26: a generate request that omits tone_profile (and is otherwise valid)
\* is accepted and processed with the default profile [{casual, 50}]
C26_OmittedProfileGetsDefault ==
  ( /\ validation.phase # "idle"
    /\ validation.body.tone_profile = None
    /\ IsUrl(validation.body.original_url) ) =>
      /\ validation.phase = "accepted"
      /\ validation.submissionData.tone_profile = << [tone |-> "casual", weight |-> 50] >>

\* C29: the profile held by the tone selector, and every profile accepted
\* by request validation, lists each tone at most once
C29_TonesUnique ==
  /\ TonesDistinct(toneSelector)
  /\ validation.phase = "accepted" => TonesDistinct(validation.submissionData.tone_profile)

----------------------------------------------------------------------------
(* The streaming handler of app/api/posts/generate/route.ts: one request,   *)
(* one step per await of its execute callback                               *)

\* what generate_posts holds when the request arrives: nothing, or a row an
\* earlier request saved
SavedEarlier ==
  { {},
    { [id |-> "id1", original_url |-> "https://a.example/post", post_content |-> "old",
       platform |-> "twitter", content_type |-> "tech_tutorial",
       content_summary |-> "summary", target_audience |-> "developers",
       link_ownership_type |-> "own_content", user_id |-> "u1"] } }

RouteInit ==
  /\ pc = [r \in Runs |-> "idle"]
  /\ response = [r \in Runs |-> 0]
  /\ session = [r \in Runs |-> ""]
  /\ submissionData = [r \in Runs |-> NoBody]
  /\ currentStage = [r \in Runs |-> PROGRESS_STAGES.SCRAPING]
  /\ writer = [r \in Runs |-> <<>>]
  /\ content = [r \in Runs |-> ""]
  /\ analysis = [r \in Runs |-> None]
  /\ examplePosts = [r \in Runs |-> <<>>]
  /\ generatedContent = [r \in Runs |-> ""]
  /\ calls = [r \in Runs |-> <<>>]
  /\ generate_posts \in SavedEarlier
  /\ training_posts = SeededTrainingPosts
  /\ savedBefore = [r \in Runs |-> FALSE]
  /\ cancelled = [r \in Runs |-> FALSE]
  /\ retrieval = NoRetrieval
  /\ scoring = NoScoring
  /\ client = NoClient
  /\ toneSelector = DEFAULT_FORM_VALUES.tone_profile
  /\ validation = NoValidation
  /\ route = NoRoute

\* everything the route.ts handler leaves alone, but for generate_posts
routeFrame ==
  << pc, response, session, submissionData, currentStage, writer, content, analysis,
     examplePosts, generatedContent, calls, training_posts, savedBefore, cancelled,
     retrieval, scoring, client, toneSelector, validation >>

\* the stage whose await the handler is suspended in
RouteStage(at) ==
  CASE at = "scrape" -> PROGRESS_STAGES.SCRAPING
    [] at = "analyze" -> PROGRESS_STAGES.ANALYZING
    [] at = "search" -> PROGRESS_STAGES.SEARCHING
    [] at = "generate" -> PROGRESS_STAGES.GENERATING
    [] at = "insert" -> PROGRESS_STAGES.SAVING

\* the request arrives: 401 without a session, 400 for invalid JSON or a
\* failed parse, else the stream opens and the scrape is awaited
RoutePOST(sess, jsonOk, body) ==
  /\ route.pc = "idle"
  /\ route' =
       IF sess = None THEN [route EXCEPT !.pc = "rejected", !.status = 401]
       ELSE IF ~jsonOk \/ Validated(body).phase = "rejected"
         THEN [route EXCEPT !.pc = "rejected", !.status = 400]
       ELSE [route EXCEPT
               !.pc = "scrape", !.status = 200, !.session = sess[1],
               !.submissionData = Validated(body).submissionData,
               !.writer = << createProgressData(PROGRESS_STAGES.SCRAPING,
                                                "Starting post generation...", "loading"),
                             createProgressData(PROGRESS_STAGES.SCRAPING,
                                                "Scraping website content...", "loading") >>]
  /\ UNCHANGED << routeFrame, generate_posts >>

RouteScrapeReturns(scraped) ==
  /\ route.pc = "scrape"
  /\ route' = [route EXCEPT
                 !.pc = "analyze",
                 !.writer = Append(@, createProgressData(PROGRESS_STAGES.ANALYZING,
                                        "Analyzing scraped content...", "loading"))]
  /\ UNCHANGED << routeFrame, generate_posts >>

\* tone profiles the analysis object can carry (or none)
RouteAnalysisTones == {None, Some(ValidToneProfile), Some(<< [tone |-> "casual", weight |-> 100] >>)}

RouteAnalyzeReturns(res, tones) ==
  /\ route.pc = "analyze"
  /\ route' =
       IF AnalysisFailed(res)
       THEN [route EXCEPT !.pc = "done", !.writer = @ \o AnalysisFailedParts]
       ELSE [route EXCEPT
               !.pc = "search", !.analysis = res,
               !.toneProfile = Coalesce(tones, route.submissionData.tone_profile),
               !.writer = @ \o
                 << createProgressData(PROGRESS_STAGES.ANALYZING,
                                       "Content analysis completed", "success"),
                    createContentAnalysisData(res[1]),
                    createProgressData(PROGRESS_STAGES.SEARCHING,
                                       "Searching for tone-similar posts...", "loading") >>]
  /\ UNCHANGED << routeFrame, generate_posts >>

\* tone_match_score of the route.ts query: SUM over the joined tone pairs
\* with no COALESCE, so NULL (None) for a row that shares no tone; one
\* point per pair whose weights differ by at most 10
RouteToneMatchScore(rowProfile, userProfile) ==
  LET joined == { p \in (1..Len(rowProfile)) \X (1..Len(userProfile)) :
                    rowProfile[p[1]].tone = userProfile[p[2]].tone }
  IN  IF joined = {} THEN None
      ELSE Some(Cardinality({ p \in joined :
                  Abs(rowProfile[p[1]].weight - userProfile[p[2]].weight) <= 10 }))

\* ORDER BY ... DESC in PostgreSQL: NULLs sort first, then larger before smaller
DescNullsFirst(a, b) == a = None \/ (b # None /\ a[1] >= b[1])

\* every order the database may return the selected rows in
RouteOrderByScoreDesc(M, toneProfile) ==
  { s \in [1..Cardinality(M) -> M] :
      /\ \A i, j \in 1..Cardinality(M) : i # j => s[i] # s[j]
      /\ \A i, j \in 1..Cardinality(M) :
           i < j => DescNullsFirst(RouteToneMatchScore(s[i].tone_profile, toneProfile),
                                   RouteToneMatchScore(s[j].tone_profile, toneProfile)) }

\* the whole query: WHERE filters, ORDER BY tone_match_score DESC, LIMIT 3
RouteToneSimilarityQuery(corpus, platform, content_type, target_audience, toneProfile) ==
  LET M == { tp \in corpus : MatchesFilters(tp, platform, content_type, target_audience) }
  IN  { Limit(s, QueryLimit) : s \in RouteOrderByScoreDesc(M, toneProfile) }

\* db.execute(toneSimilaritySql) returns
RouteSearchReturns(rows) ==
  /\ route.pc = "search"
  /\ rows \in RouteToneSimilarityQuery(training_posts, route.submissionData.platform,
                                       route.analysis[1].content_type,
                                       route.analysis[1].target_audience,
                                       route.toneProfile)
  /\ route' = [route EXCEPT
                 !.pc = "generate",
                 !.rows = rows,
                 !.writer = @ \o
                   << createProgressData(PROGRESS_STAGES.SEARCHING, FoundMessage(rows), "success"),
                      createTrainingPostsData(Len(rows), MapExamplePosts(rows)),
                      createProgressData(PROGRESS_STAGES.GENERATING,
                                         "Generating post content...", "loading") >>]
  /\ UNCHANGED << routeFrame, generate_posts >>

\* one delta of the text stream: only a progress part, every 50 characters
RouteStreamDelta(delta) ==
  /\ route.pc = "generate"
  /\ route.deltas < MaxDeltas
  /\ LET text == route.generatedContent \o delta
     IN  route' = [route EXCEPT
                    !.generatedContent = text,
                    !.deltas = @ + 1,
                    !.writer = @ \o
                      (IF Len(text) % ProgressEvery = 0
                         THEN << createProgressData(PROGRESS_STAGES.GENERATING,
                                   "Generating post content... (" \o ToString(Len(text))
                                     \o " characters)", "loading") >>
                         ELSE << >>)]
  /\ UNCHANGED << routeFrame, generate_posts >>

RouteStreamEnds ==
  /\ route.pc = "generate"
  /\ route' =
       IF GenerationFailed(route.generatedContent)
       THEN [route EXCEPT !.pc = "done", !.writer = @ \o GenerationFailedParts]
       ELSE [route EXCEPT
               !.pc = "insert",
               !.writer = @ \o
                 << createProgressData(PROGRESS_STAGES.GENERATING,
                                       "Post content generated successfully", "success"),
                    createProgressData(PROGRESS_STAGES.SAVING,
                                       "Saving post to database...", "loading") >>]
  /\ UNCHANGED << routeFrame, generate_posts >>

RouteInsertData(id) ==
  [id |-> id,
   original_url |-> route.submissionData.original_url,
   post_content |-> route.generatedContent,
   platform |-> route.submissionData.platform,
   content_type |-> route.analysis[1].content_type,
   content_summary |-> route.analysis[1].content_summary,
   target_audience |-> route.analysis[1].target_audience,
   link_ownership_type |-> route.submissionData.link_ownership_type,
   user_id |-> route.session]

\* the insert succeeds: saved, then the one generated_post part, then the
\* success notification
RouteInsertSucceeds(id) ==
  /\ route.pc = "insert"
  /\ ~ViolatesConstraint(generate_posts, RouteInsertData(id))
  /\ generate_posts' = generate_posts \cup {RouteInsertData(id)}
  /\ route' = [route EXCEPT
                 !.pc = "done",
                 !.writer = @ \o
                   << createProgressData(PROGRESS_STAGES.SAVING, "Post saved successfully", "success"),
                      createGeneratedPostData(route.generatedContent, route.submissionData.platform),
                      createNotificationData("Post generation completed successfully!", "success") >>]
  /\ UNCHANGED routeFrame

\* what the handler's outer catch writes, whatever was thrown and wherever
RouteOuterCatchParts ==
  << createProgressData(PROGRESS_STAGES.SAVING, "An error occurred during generation", "error"),
     createNotificationData("Internal server error occurred", "error") >>

RouteConflictParts ==
  << createProgressData(PROGRESS_STAGES.SAVING, "URL already exists for this user", "error"),
     createNotificationData("You have already added this URL", "error") >>

\* the insert throws: a unique violation is answered by the inner catch,
\* anything else is rethrown to the outer catch
RouteInsertThrows(err) ==
  /\ route.pc = "insert"
  /\ \/ err \in ThrownValues
     \/ /\ err \in UniqueViolations
        /\ \E id \in Ids : ViolatesConstraint(generate_posts, RouteInsertData(id))
  /\ route' = [route EXCEPT
                 !.pc = "done",
                 !.raisedIn = RouteStage(route.pc),
                 !.writer = @ \o (IF isUniqueViolation(err) THEN RouteConflictParts
                                                            ELSE RouteOuterCatchParts)]
  /\ UNCHANGED << routeFrame, generate_posts >>

\* firecrawl.scrape, generateObject, db.execute or the text stream throws
RouteCallThrows(err) ==
  /\ route.pc \in {"scrape", "analyze", "search", "generate"}
  /\ route' = [route EXCEPT
                 !.pc = "done",
                 !.raisedIn = RouteStage(route.pc),
                 !.writer = @ \o RouteOuterCatchParts]
  /\ UNCHANGED << routeFrame, generate_posts >>

RouteNext ==
  \/ \E sess \in {None, Some("u1")}, jsonOk \in BOOLEAN, body \in DirectBodies :
        RoutePOST(sess, jsonOk, body)
  \/ \E scraped \in ScrapeResults : RouteScrapeReturns(scraped)
  \/ \E res \in AnalysisResults, tones \in RouteAnalysisTones : RouteAnalyzeReturns(res, tones)
  \/ \E rows \in RowSequences : RouteSearchReturns(rows)
  \/ \E delta \in Deltas : RouteStreamDelta(delta)
  \/ RouteStreamEnds
  \/ \E id \in Ids : RouteInsertSucceeds(id)
  \/ \E err \in ThrownValues \cup UniqueViolations : RouteInsertThrows(err)
  \/ \E err \in ThrownValues : RouteCallThrows(err)

RouteSpec == RouteInit /\ [][RouteNext]_vars

\* C30: in the route.ts streaming handler an exception raised during
\* scraping, analysis, retrieval or generation is reported by an error
\* progress event tagged with the stage in which it was raised
C30_ErrorTaggedWithRaisingStage ==
  route.raisedIn \in {"scraping", "analyzing", "searching", "generating"} =>
    \E i \in 1..Len(route.writer) :
      /\ route.writer[i].type = "data-progress"
      /\ route.writer[i].status = "error"
      /\ route.writer[i].stage = route.raisedIn

----------------------------------------------------------------------------
(* C32, C34, C35, C38: the generation loop and the save of the pipeline *)

\* the generating progress parts of run r that report a character count
CharacterCountParts(r) ==
  SelectSeq(ProgressParts(r),
            LAMBDA part : /\ part.stage = PROGRESS_STAGES.GENERATING
                          /\ part.status = "loading"
                          /\ includes(part.message, "characters"))

\* C32: a generating/loading progress event with the character count is
\* written for every 50 characters of output: one for each multiple of 50
\* the cumulative generated length has reached or passed
C32_ProgressEvery50Characters ==
  \A r \in Runs :
    Len(CharacterCountParts(r)) = Len(generatedContent[r]) \div ProgressEvery

\* C34: the post_content a successful insert writes is the content of the
\* last generated_post part sent, which is the accumulated text of the run
C34_SavedContentIsLastChunk ==
  [][\A r \in Runs :
       (pc[r] = "insert" /\ pc'[r] = "done" /\ generate_posts' # generate_posts) =>
         \A row \in generate_posts' \ generate_posts :
           /\ Len(GeneratedPostContents(r)) > 0
           /\ row.post_content = GeneratedPostContents(r)[Len(GeneratedPostContents(r))]
           /\ row.post_content = generatedContent[r]]_vars

C34_Witness ==
  \E r \in Runs :
    /\ Saved(r)
    /\ Len(GeneratedPostContents(r)) = 2
    /\ \E row \in RowsOfKey(r) :
         row.post_content = GeneratedPostContents(r)[2] /\ Len(row.post_content) = 50

\* C35: a run wrote a success notification exactly when its insert
\* returned, and no run has both a success notification and an error
\* progress part
C35_SuccessIffInserted ==
  \A r \in Runs :
    /\ HasNotification(r, "success") <=> LastCall(r, "db.insert", "returned")
    /\ ~(HasNotification(r, "success") /\ ErrorProgressAt(r) # {})

C35_Witness ==
  \E r, q \in Runs :
    /\ Saved(r) /\ HasNotification(r, "success")
    /\ pc[q] = "done" /\ LastCall(q, "db.insert", "threw")
    /\ isUniqueViolation(LastError(q))
    /\ ~HasNotification(q, "success") /\ ErrorProgressAt(q) # {}

\* C38: every row of generate_posts has non-empty post_content and
\* non-empty content_summary
C38_RowsNonEmpty ==
  \A row \in generate_posts : row.post_content # "" /\ row.content_summary # ""

C38_Witness ==
  /\ Cardinality(generate_posts) = 1
  /\ \E r \in Runs : Saved(r) /\ Len(generatedContent[r]) = 20
  /\ \E q \in Runs : pc[q] = "done" /\ generatedContent[q] = "" /\ Called(q, "streamText")

----------------------------------------------------------------------------
(* C33: the weights held by the tone selector *)

\* C33: after any sequence of addTone, removeTone and updateWeight from the
\* default profile the total of the tone weights does not exceed 100
C33_TotalWeightAtMost100 == totalWeight(toneSelector) <= 100

----------------------------------------------------------------------------
(* C31: what the form renders once a run has reported an error *)

\* the notifications the form reads out of the message parts
notifications(parts) == SelectSeq(parts, LAMBDA part : part.type = "data-notification")

hasApplicationError(parts) ==
  \E i \in 1..Len(notifications(parts)) : notifications(parts)[i].level = "error"

\* the render condition of the generated post card
GeneratedPostCard(parts) == generatedPost(parts) # None /\ ~hasApplicationError(parts)

\* an error notification was delivered to the client
ErrorNotificationDelivered ==
  \E i \in 1..Len(client.delivered) :
    /\ client.delivered[i].type = "data-notification"
    /\ client.delivered[i].level = "error"

\* C31: once an error notification has been delivered the form does not
\* present the generated post card
C31_NoCardAfterError == ErrorNotificationDelivered => ~GeneratedPostCard(client.parts)

----------------------------------------------------------------------------
(* The non-streaming handler of app/api/posts/generate/route.ts: concurrent *)
(* requests, one step per await                                             *)

\* what the handler never touches
legacyFrame ==
  << currentStage, writer, content, calls, training_posts, savedBefore, cancelled, sideVars >>

\* rows is the result set S in some order (LIMIT 5 is above the corpus size)
Enumerates(rows, S) ==
  /\ Len(rows) = Cardinality(S)
  /\ { rows[i] : i \in 1..Len(rows) } = S

\* texts generateObject can return as generated_post_content
GeneratedTexts == {"", "post"}

\* 401 without a session, 400 for invalid JSON or a failed parse; else the
\* existence check is awaited
LegacyPOST(r, sess, jsonOk, body) ==
  /\ pc[r] = "idle"
  /\ sess # None => sess[1] \in UsersOf(r)
  /\ IF sess = None
       THEN /\ pc' = [pc EXCEPT ![r] = "rejected"]
            /\ response' = [response EXCEPT ![r] = 401]
            /\ UNCHANGED << session, submissionData >>
     ELSE IF ~jsonOk \/ Validated(body).phase = "rejected"
       THEN /\ pc' = [pc EXCEPT ![r] = "rejected"]
            /\ response' = [response EXCEPT ![r] = 400]
            /\ UNCHANGED << session, submissionData >>
     ELSE /\ pc' = [pc EXCEPT ![r] = "check"]
          /\ session' = [session EXCEPT ![r] = sess[1]]
          /\ submissionData' = [submissionData EXCEPT ![r] = Validated(body).submissionData]
          /\ UNCHANGED response
  /\ UNCHANGED << analysis, examplePosts, generatedContent, generate_posts, legacyFrame >>

\* the select for an existing post of this user and URL returns
ExistenceCheckReturns(r) ==
  /\ pc[r] = "check"
  /\ IF RowsOfKey(r) # {}
       THEN /\ pc' = [pc EXCEPT ![r] = "done"]
            /\ response' = [response EXCEPT ![r] = 409]
       ELSE /\ pc' = [pc EXCEPT ![r] = "scrape"]
            /\ UNCHANGED response
  /\ UNCHANGED << session, submissionData, analysis, examplePosts, generatedContent,
                  generate_posts, legacyFrame >>

LegacyScrapeReturns(r, scraped) ==
  /\ pc[r] = "scrape"
  /\ pc' = [pc EXCEPT ![r] = "analyze"]
  /\ UNCHANGED << response, session, submissionData, analysis, examplePosts,
                  generatedContent, generate_posts, legacyFrame >>

LegacyAnalyzeReturns(r, res) ==
  /\ pc[r] = "analyze"
  /\ IF AnalysisFailed(res)
       THEN /\ pc' = [pc EXCEPT ![r] = "done"]
            /\ response' = [response EXCEPT ![r] = 500]
            /\ UNCHANGED analysis
       ELSE /\ pc' = [pc EXCEPT ![r] = "exact"]
            /\ analysis' = [analysis EXCEPT ![r] = res]
            /\ UNCHANGED response
  /\ UNCHANGED << session, submissionData, examplePosts, generatedContent,
                  generate_posts, legacyFrame >>

\* the exact-match query: platform, content type and audience (every seeded
\* row has the request's link ownership type)
ExactMatches(r) ==
  { tp \in training_posts :
      /\ tp.platforms = submissionData[r].platform
      /\ tp.content_type = analysis[r][1].content_type
      /\ tp.target_audience = analysis[r][1].target_audience }

\* the broader query: platform and content type only
PriorityMatches(r) ==
  { tp \in training_posts :
      /\ tp.platforms = submissionData[r].platform
      /\ tp.content_type = analysis[r][1].content_type }

ExactQueryReturns(r, rows) ==
  /\ pc[r] = "exact"
  /\ Enumerates(rows, ExactMatches(r))
  /\ pc' = [pc EXCEPT ![r] = IF Len(rows) = 0 THEN "priority" ELSE "generate"]
  /\ examplePosts' = [examplePosts EXCEPT ![r] = MapExamplePosts(rows)]
  /\ UNCHANGED << response, session, submissionData, analysis, generatedContent,
                  generate_posts, legacyFrame >>

PriorityQueryReturns(r, rows) ==
  /\ pc[r] = "priority"
  /\ Enumerates(rows, PriorityMatches(r))
  /\ pc' = [pc EXCEPT ![r] = IF Len(rows) = 0 THEN "fallback" ELSE "generate"]
  /\ examplePosts' = [examplePosts EXCEPT ![r] = MapExamplePosts(rows)]
  /\ UNCHANGED << response, session, submissionData, analysis, generatedContent,
                  generate_posts, legacyFrame >>

\* the fallback: the most recent posts, whatever they are
FallbackQueryReturns(r, rows) ==
  /\ pc[r] = "fallback"
  /\ Enumerates(rows, training_posts)
  /\ pc' = [pc EXCEPT ![r] = "generate"]
  /\ examplePosts' = [examplePosts EXCEPT ![r] = MapExamplePosts(rows)]
  /\ UNCHANGED << response, session, submissionData, analysis, generatedContent,
                  generate_posts, legacyFrame >>

LegacyGenerateReturns(r, text) ==
  /\ pc[r] = "generate"
  /\ IF text = ""
       THEN /\ pc' = [pc EXCEPT ![r] = "done"]
            /\ response' = [response EXCEPT ![r] = 500]
            /\ UNCHANGED generatedContent
       ELSE /\ pc' = [pc EXCEPT ![r] = "insert"]
            /\ generatedContent' = [generatedContent EXCEPT ![r] = text]
            /\ UNCHANGED response
  /\ UNCHANGED << session, submissionData, analysis, examplePosts, generate_posts,
                  legacyFrame >>

\* the insert returns: the table's only key is the generated id
LegacyInsertSucceeds(r, id) ==
  /\ pc[r] = "insert"
  /\ ~ViolatesConstraint(generate_posts, insertData(r, id))
  /\ generate_posts' = generate_posts \cup {insertData(r, id)}
  /\ pc' = [pc EXCEPT ![r] = "done"]
  /\ response' = [response EXCEPT ![r] = 201]
  /\ UNCHANGED << session, submissionData, analysis, examplePosts, generatedContent,
                  legacyFrame >>

\* any awaited call of the try block throws: 500 from the catch
LegacyCallThrows(r, err) ==
  /\ pc[r] \in {"check", "scrape", "analyze", "exact", "priority", "fallback",
                 "generate", "insert"}
  /\ pc' = [pc EXCEPT ![r] = "done"]
  /\ response' = [response EXCEPT ![r] = 500]
  /\ UNCHANGED << session, submissionData, analysis, examplePosts, generatedContent,
                  generate_posts, legacyFrame >>

LegacyNext ==
  \E r \in Runs :
    \/ \E sess \in {None} \cup { Some(u) : u \in Users }, jsonOk \in BOOLEAN,
          body \in DirectBodies : LegacyPOST(r, sess, jsonOk, body)
    \/ ExistenceCheckReturns(r)
    \/ \E scraped \in ScrapeResults : LegacyScrapeReturns(r, scraped)
    \/ \E res \in AnalysisResults : LegacyAnalyzeReturns(r, res)
    \/ \E rows \in RowSequences : ExactQueryReturns(r, rows)
    \/ \E rows \in RowSequences : PriorityQueryReturns(r, rows)
    \/ \E rows \in RowSequences : FallbackQueryReturns(r, rows)
    \/ \E text \in GeneratedTexts : LegacyGenerateReturns(r, text)
    \/ \E id \in Ids : LegacyInsertSucceeds(r, id)
    \/ \E err \in ThrownValues : LegacyCallThrows(r, err)

LegacySpec == Init /\ [][LegacyNext]_vars

\* C36: with the existence check made before generation, generate_posts
\* never holds two rows with the same (user_id, original_url), concurrent
\* requests for the same pair included
C36_CheckKeepsKeysUnique ==
  \A a, b \in generate_posts :
    (a.user_id = b.user_id /\ a.original_url = b.original_url) => a = b

----------------------------------------------------------------------------
(* C37: the ranking of the route.ts streaming query *)

\* the row shares no tone with the profile
SharesNoTone(tp, profile) == SharedTones(tp.tone_profile, profile) = {}

====
